---- MODULE Spec2Model ----
(***************************************************************************)
(* bzreporter: reconciliation of junit test reports with bugzilla bugs.    *)
(*                                                                         *)
(* Python strings are modelled as sequences of one-character strings, so   *)
(* that regular-expression scans, substring tests, split and join are      *)
(* computed character by character as the interpreter computes them.       *)
(***************************************************************************)
EXTENDS Integers, Sequences, FiniteSets, TLC

VARIABLES
    txt,            \* a captured system-out text handed to the extractor
    stage,          \* position of the single-testcase extraction
    bzids,          \* result of find_bugzillas(txt)
    record,         \* testcase dict built by process_file from txt
    dir,            \* the report directory: files in os.walk order
    test_results,   \* per run: result of parse_results(args.location)
    args,           \* the command line (or constructor inputs) of the runs
    bzr,            \* per run: the BzReporter object's fields
    bugs,           \* per run: Bug objects returned by get_bugs
    idx,            \* per run: number of bugs the loop of main has handled
    pc,             \* per run: position in main
    tracker,        \* the bugzilla server: bug id -> bug
    updates         \* update_bugs requests received by the server, in order

vars == <<txt, stage, bzids, record, dir, test_results, args, bzr, bugs, idx,
          pc, tracker, updates>>

textVars == <<txt, stage, bzids, record>>
runVars  == <<test_results, args, bzr, bugs, idx, pc, tracker, updates>>

(***************************************************************************)
(* String literals of the program.                                         *)
(***************************************************************************)
DEVEL_WHITEBOARD_MARK == <<"g","a","t","i","n","g","_","p","a","s","s","e","d","+">>
BZ_PREFIX == <<"@","b","z">>
FILENAME_PREFIX == <<"@","f","e","a","t","u","r","e","_","f","i","l","e","_","n","a","m","e",":">>
TOKEN_PREFIX == <<"T","e","s","t","+",":">>
COMMENT_HEADER == <<"T","h","e"," ","g","a","t","i","n","g"," ","t","e","s","t","s"," ","r","e","s","u","l","t","s",":">>
SEPARATOR == <<"=","=","=","=","=","=","=","=","=","=","=","=","=","=","=","=","=","=","=","=","=","=","=","=","=">>
TEST_LABEL == <<"T","e","s","t",":"," ">>
XML_SUFFIX == <<".","x","m","l">>
NL == <<"\n">>
SLASH == <<"/">>

\* re.MULTILINE, the integer the code passes as the second positional
\* argument of the compiled patterns' findall / search, which is `pos`.
re_MULTILINE == 8

\* Python's None and a present value, for Optional results.
None == <<>>
Some(v) == <<v>>

(***************************************************************************)
(* Character classes and literal matching of the two patterns.             *)
(***************************************************************************)
IsDigit(c) == c \in {"0","1","2","3","4","5","6","7","8","9"}
IsSpace(c) == c \in {" ", "\n", "\t", "\r"}

MatchesAt(s, i, lit) ==
    /\ i >= 1
    /\ i + Len(lit) - 1 <= Len(s)
    /\ \A k \in 1..Len(lit) : s[i + k - 1] = lit[k]

\* Greedy \d+ / \S+ : index of the last character of the maximal run that
\* starts at i (i - 1 when the run is empty).
RECURSIVE DigitsEnd(_, _)
DigitsEnd(s, i) ==
    IF i <= Len(s) /\ IsDigit(s[i]) THEN DigitsEnd(s, i + 1) ELSE i - 1

RECURSIVE NonSpaceEnd(_, _)
NonSpaceEnd(s, i) ==
    IF i <= Len(s) /\ ~IsSpace(s[i]) THEN NonSpaceEnd(s, i + 1) ELSE i - 1

\* RE_BZID.findall(s, pos): the group-1 strings of the non-overlapping
\* matches of '@bz(\d+)' found scanning from the 0-based offset pos.
RECURSIVE RE_BZID_findall(_, _)
RE_BZID_findall(s, pos) ==
    LET i == pos + 1
        e == DigitsEnd(s, i + Len(BZ_PREFIX))
    IN  IF i > Len(s) THEN <<>>
        ELSE IF MatchesAt(s, i, BZ_PREFIX) /\ e >= i + Len(BZ_PREFIX)
             THEN <<SubSeq(s, i + Len(BZ_PREFIX), e)>> \o RE_BZID_findall(s, e)
             ELSE RE_BZID_findall(s, pos + 1)

\* RE_FILENAME.search(s, pos): group 1 of the first match of
\* '@feature_file_name:(\S+)' at or after the 0-based offset pos, or None.
RECURSIVE RE_FILENAME_search(_, _)
RE_FILENAME_search(s, pos) ==
    LET i == pos + 1
        e == NonSpaceEnd(s, i + Len(FILENAME_PREFIX))
    IN  IF i > Len(s) THEN None
        ELSE IF MatchesAt(s, i, FILENAME_PREFIX) /\ e >= i + Len(FILENAME_PREFIX)
             THEN Some(SubSeq(s, i + Len(FILENAME_PREFIX), e))
             ELSE RE_FILENAME_search(s, pos + 1)

DigitVal(c) ==
    CASE c = "0" -> 0 [] c = "1" -> 1 [] c = "2" -> 2 [] c = "3" -> 3
      [] c = "4" -> 4 [] c = "5" -> 5 [] c = "6" -> 6 [] c = "7" -> 7
      [] c = "8" -> 8 [] c = "9" -> 9

\* int(bzid) of a string of decimal digits.
RECURSIVE int(_)
int(s) ==
    IF s = <<>> THEN 0
    ELSE int(SubSeq(s, 1, Len(s) - 1)) * 10 + DigitVal(s[Len(s)])

find_bugzillas(t) ==
    LET found == RE_BZID_findall(t, re_MULTILINE)
    IN  [k \in 1..Len(found) |-> int(found[k])]

\* featurefile of a testcase, lines 62-65.
find_featurefile(t) == RE_FILENAME_search(t, re_MULTILINE)


(***************************************************************************)
(* String helpers: str.endswith, `in`, str.split, str.join.                *)
(***************************************************************************)
endswith(s, suffix) ==
    /\ Len(s) >= Len(suffix)
    /\ SubSeq(s, Len(s) - Len(suffix) + 1, Len(s)) = suffix

\* sub in s
Contains(s, sub) == \E i \in 1..(Len(s) + 1) : MatchesAt(s, i, sub)

\* s.split(sep) for a one-character separator
RECURSIVE SplitFrom(_, _, _, _)
SplitFrom(s, sep, i, cur) ==
    IF i > Len(s) THEN <<cur>>
    ELSE IF s[i] = sep THEN <<cur>> \o SplitFrom(s, sep, i + 1, <<>>)
         ELSE SplitFrom(s, sep, i + 1, Append(cur, s[i]))

split(s, sep) == SplitFrom(s, sep, 1, <<>>)

\* sep.join(parts)
RECURSIVE join(_, _)
join(sep, parts) ==
    IF parts = <<>> THEN <<>>
    ELSE IF Len(parts) = 1 THEN parts[1]
         ELSE parts[1] \o sep \o join(sep, Tail(parts))

(***************************************************************************)
(* Report Aggregator: process_file and parse_results.                      *)
(* A dict is a function whose DOMAIN is the set of keys.                    *)
(***************************************************************************)
EmptyDict == [k \in {} |-> <<>>]

\* results.setdefault(key, []).append(value)
setdefault_append(d, key, value) ==
    IF key \in DOMAIN d THEN [d EXCEPT ![key] = Append(@, value)]
    ELSE d @@ (key :> <<value>>)

\* the testcase dict of one <testcase> element, lines 56-65
make_testcase(elem) ==
    [classname   |-> elem.classname,
     name        |-> elem.name,
     status      |-> elem.status,
     system_out  |-> elem.system_out,
     failure     |-> IF elem.status = "failed" THEN elem.failure ELSE None,
     featurefile |-> find_featurefile(elem.system_out)]

\* lines 66-67: one append per occurrence of a bug id in the text
RECURSIVE append_for_each(_, _, _)
append_for_each(results, ids, testcase) ==
    IF ids = <<>> THEN results
    ELSE append_for_each(setdefault_append(results, Head(ids), testcase),
                         Tail(ids), testcase)

RECURSIVE process_testcases(_, _)
process_testcases(results, elems) ==
    IF elems = <<>> THEN results
    ELSE process_testcases(
             append_for_each(results,
                             find_bugzillas(Head(elems).system_out),
                             make_testcase(Head(elems))),
             Tail(elems))

process_file(junit_file) == process_testcases(EmptyDict, junit_file.testcases)

\* lines 76-77: results.setdefault(bzid, []).extend(cases) for every item
extend_all(results, file_results) ==
    [k \in (DOMAIN results) \cup (DOMAIN file_results) |->
        (IF k \in DOMAIN results THEN results[k] ELSE <<>>)
        \o (IF k \in DOMAIN file_results THEN file_results[k] ELSE <<>>)]

RECURSIVE walk_files(_, _)
walk_files(results, files) ==
    IF files = <<>> THEN results
    ELSE walk_files(
             IF endswith(Head(files).filename, XML_SUFFIX)
             THEN extend_all(results, process_file(Head(files)))
             ELSE results,
             Tail(files))

parse_results(junit_dir) == walk_files(EmptyDict, junit_dir)

(***************************************************************************)
(* Reconciliation: the loop and the payload of report_results.             *)
(***************************************************************************)
test_name(result) == result.classname \o SLASH \o result.name

\* 'Test+:{}'.format(result['featurefile'] or result['classname'])
whiteboard_token(result) ==
    TOKEN_PREFIX \o
        (IF result.featurefile # None /\ result.featurefile[1] # <<>>
         THEN result.featurefile[1]
         ELSE result.classname)

\* loop_step with the final else branch lost: a failed test no longer
\* clears all_passed
loop_step_lenient(acc, result) ==
    IF result.status = "passed"
    THEN [acc EXCEPT
            !.comment = @ \o <<SEPARATOR, TEST_LABEL \o test_name(result)>>
                          \o split(result.system_out, "\n"),
            !.whiteboard_message = Append(@, whiteboard_token(result))]
    ELSE acc

\* one iteration of the loop of lines 131-143
loop_step(acc, result) ==
    IF result.status = "passed"
    THEN [acc EXCEPT
            !.comment = @ \o <<SEPARATOR, TEST_LABEL \o test_name(result)>>
                          \o split(result.system_out, "\n"),
            !.whiteboard_message = Append(@, whiteboard_token(result))]
    ELSE IF result.status = "skipped"
         THEN acc
         ELSE [acc EXCEPT !.all_passed = FALSE]

RECURSIVE loop_results(_, _)
loop_results(acc, results) ==
    IF results = <<>> THEN acc
    ELSE loop_results(loop_step(acc, Head(results)), Tail(results))

\* lines 128-130 followed by the loop
classify(results) ==
    loop_results([comment            |-> <<COMMENT_HEADER>>,
                  all_passed         |-> TRUE,
                  whiteboard_message |-> <<>>],
                 results)

\* new_whiteboard without the insert(0, bug.devel_whiteboard) of line 153
new_whiteboard_overwrite(old_whiteboard, whiteboard_message) ==
    join(NL, whiteboard_message \o <<DEVEL_WHITEBOARD_MARK>>)

\* new_whiteboard without the append of the mark of line 154
new_whiteboard_unmarked(old_whiteboard, whiteboard_message) ==
    join(NL,
         (IF old_whiteboard # <<>> THEN <<old_whiteboard>> ELSE <<>>)
         \o whiteboard_message)

\* lines 152-155: the new devel_whiteboard value
new_whiteboard(old_whiteboard, whiteboard_message) ==
    join(NL,
         (IF old_whiteboard # <<>> THEN <<old_whiteboard>> ELSE <<>>)
         \o whiteboard_message
         \o <<DEVEL_WHITEBOARD_MARK>>)

\* lines 147-148: the comment of the update, present only when self.comment
update_comment(self_comment, comment_lines) ==
    IF self_comment THEN Some(join(NL, comment_lines)) ELSE None

\* report_results: the update_bugs request it issues, or None when it returns
\* without contacting the server.
report_results(self, bug, results) ==
    IF Contains(bug.devel_whiteboard, DEVEL_WHITEBOARD_MARK) THEN None
    ELSE IF self.dry_run THEN None
    ELSE LET acc == classify(results)
         IN  IF ~acc.all_passed THEN None
             ELSE Some([ids    |-> <<bug.id>>,
                        update |-> [comment |-> update_comment(self.comment, acc.comment),
                                    devel_whiteboard |->
                                        new_whiteboard(bug.devel_whiteboard,
                                                       acc.whiteboard_message)]])


(***************************************************************************)
(* The bugzilla server and the Eligibility Filter.                         *)
(***************************************************************************)
RECURSIVE SortedSeq(_)
SortedSeq(S) ==
    IF S = {} THEN <<>>
    ELSE LET m == CHOOSE x \in S : \A y \in S : x <= y
         IN  <<m>> \o SortedSeq(S \ {m})

Elems(seq) == {seq[k] : k \in 1..Len(seq)}

\* default of --status, lines 39-41
DEFAULT_STATUS == <<"NEW", "ASSIGNED", "POST", "MODIFIED", "ON_DEV", "ON_QA">>

\* BzReporter.__init__ that does not store its dry_run argument
BzReporter_nodry(product, release, status, comment, dry_run) ==
    [product |-> product, release |-> release, status |-> status,
     dry_run |-> FALSE, comment |-> comment]

\* BzReporter.__init__, lines 83-89
BzReporter(product, release, status, comment, dry_run) ==
    [product |-> product, release |-> release, status |-> status,
     dry_run |-> dry_run, comment |-> comment]

\* the bugs the server selects for the query built in lines 101-111
query_matches(self, ids, server) ==
    {id \in DOMAIN server :
        /\ server[id].product = self.product
        /\ server[id].status \in Elems(self.status)
        /\ server[id].cf_internal_target_release = self.release
        /\ ~Contains(server[id].devel_whiteboard, DEVEL_WHITEBOARD_MARK)
        /\ id \in ids}

\* get_bugs: Bug objects holding the field values of the time of the query
get_bugs(self, keys, server) ==
    LET ids == SortedSeq(query_matches(self, keys, server))
    IN  [k \in 1..Len(ids) |->
            [id |-> ids[k], devel_whiteboard |-> server[ids[k]].devel_whiteboard]]

\* the server applying build_update(**update_dict) to the bugs of a request
apply_update(server, request) ==
    [id \in DOMAIN server |->
        IF id \in Elems(request.ids)
        THEN [server[id] EXCEPT
                !.devel_whiteboard = request.update.devel_whiteboard,
                !.comments = IF request.update.comment # None
                             THEN Append(@, request.update.comment[1])
                             ELSE @]
        ELSE server[id]]

\* after_update with the exception swallowed
after_update_swallow(ok) == "loop"

\* where main continues after update_bugs returned (ok) or raised: the
\* exception is caught neither in report_results nor in main
after_update(ok) == IF ok THEN "loop" ELSE "raised"

(***************************************************************************)
(* Inputs.                                                                 *)
(***************************************************************************)
MaxChunks  == 4     \* chunks of a generated system-out text
MaxFiles   == 2     \* files of a generated report directory
MaxCases   == 2     \* testcases of a generated report file
MaxRecords == 2     \* testcases of the report file of a reconciliation run

SeqsUpTo(S, lo, hi) == UNION {[1..n -> S] : n \in lo..hi}

RECURSIVE Flatten(_)
Flatten(parts) == IF parts = <<>> THEN <<>> ELSE Head(parts) \o Flatten(Tail(parts))

Chunks ==
    {BZ_PREFIX, <<"1">>, <<"2">>, <<" ">>, <<"S","c","e","n","a","r","i","o",":">>,
     FILENAME_PREFIX, <<"a",".","f">>}

Out1 == <<"S","c","e","n","a","r","i","o",":","\n","@","b","z","1"," ","@","f","e","a","t","u","r","e","_","f","i","l","e","_","n","a","m","e",":","a",".","f">>
Out2 == <<"@","b","z","1"," ","S","c","e","n","a","r","i","o",":"," ","x">>
Out3 == <<"@","f","e","a","t","u","r","e","_","f","i","l","e","_","n","a","m","e",":","b",".","f"," ","@","b","z","2">>
Out4 == <<"S","c","e","n","a","r","i","o",":"," ","@","b","z","1"," ","@","b","z","2">>

ClassName == <<"f",".","A">>
CaseName  == <<"t","1">>
FailureOf(status) ==
    IF status = "failed" THEN Some([message |-> <<"b","o","o","m">>, details |-> <<"x">>])
    ELSE None

Elem(status, out) ==
    [classname |-> ClassName, name |-> CaseName, status |-> status,
     system_out |-> out, failure |-> FailureOf(status)]

Statuses == {"passed", "failed", "skipped"}

FileNames == {<<"r",".","x","m","l">>, <<"n",".","t","x","t">>, <<"x","m","l">>}

ParseElems == {Elem(st, out) : st \in {"passed", "failed"}, out \in {Out1, Out2, Out3, Out4}}
ParseFiles == {[filename |-> f, testcases |-> cs] :
                  f \in FileNames, cs \in SeqsUpTo(ParseElems, 1, MaxCases)}
ParseDirs  == SeqsUpTo(ParseFiles, 1, MaxFiles)

RunElems == {Elem(st, out) : st \in Statuses, out \in {Out1, Out4}}
RunDirs  == {<<[filename |-> <<"r",".","x","m","l">>, testcases |-> cs]>> :
                cs \in SeqsUpTo(RunElems, 1, MaxRecords)}

Bug(product, release, status, whiteboard) ==
    [product |-> product, cf_internal_target_release |-> release,
     status |-> status, devel_whiteboard |-> whiteboard, comments |-> <<>>]

QaAck == <<"q","a","_","a","c","k">>

Trackers ==
    {(1 :> Bug("RHEL", "8.2.0", "NEW", <<>>))
        @@ (2 :> Bug("RHEL", "8.2.0", "MODIFIED", <<>>)),
     (1 :> Bug("RHEL", "8.2.0", "ON_QA", QaAck))
        @@ (2 :> Bug("Fedora", "8.2.0", "NEW", <<>>)),
     (1 :> Bug("RHEL", "8.2.0", "POST", QaAck \o NL \o DEVEL_WHITEBOARD_MARK))
        @@ (2 :> Bug("RHEL", "8.1.0", "NEW", QaAck)),
     (1 :> Bug("RHEL", "8.2.0", "ASSIGNED", <<>>))
        @@ (2 :> Bug("RHEL", "8.2.0", "CLOSED", <<>>))}

ArgSets == [via : {"main", "api"}, dry_run : BOOLEAN, comment : BOOLEAN]
NoArgs  == [via |-> "main", dry_run |-> FALSE, comment |-> FALSE]

Runs == {"A", "B"}

(***************************************************************************)
(* Extraction of one testcase (find_bugzillas and lines 56-65).            *)
(***************************************************************************)
IdleText == txt = <<>> /\ stage = "idle" /\ bzids = <<>> /\ record = None

IdleRuns ==
    /\ test_results = [r \in Runs |-> EmptyDict]
    /\ bzr = [r \in Runs |-> None]
    /\ bugs = [r \in Runs |-> <<>>]
    /\ idx = [r \in Runs |-> 0]
    /\ pc = [r \in Runs |-> "start"]
    /\ updates = <<>>

InitText ==
    /\ \E cs \in SeqsUpTo(Chunks, 0, MaxChunks) : txt = Flatten(cs)
    /\ stage = "input" /\ bzids = <<>> /\ record = None
    /\ dir = <<>> /\ tracker = EmptyDict /\ args = NoArgs
    /\ IdleRuns

ExtractTestcase ==
    /\ stage = "input"
    /\ stage' = "parsed"
    /\ bzids' = find_bugzillas(txt)
    /\ record' = Some(make_testcase(Elem("passed", txt)))
    /\ UNCHANGED <<txt, dir, runVars>>

NextText == ExtractTestcase

SpecText == InitText /\ [][NextText]_vars

(***************************************************************************)
(* Aggregation of a report directory (parse_results alone).                *)
(***************************************************************************)
InitParse ==
    /\ IdleText
    /\ dir \in ParseDirs
    /\ tracker = EmptyDict /\ args = NoArgs
    /\ IdleRuns

ParseResults(r) ==
    /\ pc[r] = "start"
    /\ test_results' = [test_results EXCEPT ![r] = parse_results(dir)]
    /\ pc' = [pc EXCEPT ![r] = "parsed"]
    /\ UNCHANGED <<textVars, dir, args, bzr, bugs, idx, tracker, updates>>

NextParse == ParseResults("A")

SpecParse == InitParse /\ [][NextParse]_vars

(***************************************************************************)
(* Reconciliation runs against one server.                                 *)
(***************************************************************************)
Init ==
    /\ IdleText
    /\ dir \in RunDirs
    /\ tracker \in Trackers
    /\ args \in ArgSets
    /\ IdleRuns

\* the runs are named in the order they are started
MayStart(r) == r = "A" \/ pc["A"] # "start"

\* main, lines 161-173: parse_args, parse_results, BzReporter(...) without
\* the comment argument; sys.exit(1) when not logged in
Main(r) ==
    /\ pc[r] = "start"
    /\ MayStart(r)
    /\ args.via = "main"
    /\ \E logged_in \in BOOLEAN :
        /\ bzr' = [bzr EXCEPT ![r] =
                        Some(BzReporter("RHEL", "8.2.0", DEFAULT_STATUS, FALSE,
                                        args.dry_run))]
        /\ pc' = [pc EXCEPT ![r] = IF logged_in THEN "ready" ELSE "exit1"]
    /\ test_results' = [test_results EXCEPT ![r] = parse_results(dir)]
    /\ UNCHANGED <<textVars, dir, args, bugs, idx, tracker, updates>>

\* a caller other than main: parse_results, then BzReporter(...) with an
\* explicit comment argument
Direct(r) ==
    /\ pc[r] = "start"
    /\ MayStart(r)
    /\ args.via = "api"
    /\ \E logged_in \in BOOLEAN :
        /\ bzr' = [bzr EXCEPT ![r] =
                        Some(BzReporter("RHEL", "8.2.0", DEFAULT_STATUS, args.comment,
                                        args.dry_run))]
        /\ pc' = [pc EXCEPT ![r] = IF logged_in THEN "ready" ELSE "exit1"]
    /\ test_results' = [test_results EXCEPT ![r] = parse_results(dir)]
    /\ UNCHANGED <<textVars, dir, args, bugs, idx, tracker, updates>>

\* line 174
GetBugs(r) ==
    /\ pc[r] = "ready"
    /\ bugs' = [bugs EXCEPT ![r] =
                    get_bugs(bzr[r][1], DOMAIN test_results[r], tracker)]
    /\ idx' = [idx EXCEPT ![r] = 0]
    /\ pc' = [pc EXCEPT ![r] = "loop"]
    /\ UNCHANGED <<textVars, dir, test_results, args, bzr, tracker, updates>>

\* one iteration of the loop of lines 176-177
ReportResults(r) ==
    /\ pc[r] = "loop"
    /\ idx[r] < Len(bugs[r])
    /\ LET bug     == bugs[r][idx[r] + 1]
           request == report_results(bzr[r][1], bug, test_results[r][bug.id])
       IN  IF request = None
           THEN /\ idx' = [idx EXCEPT ![r] = @ + 1]
                /\ UNCHANGED <<pc, tracker, updates>>
           ELSE \E ok \in BOOLEAN :
                /\ updates' = Append(updates,
                                     [run |-> r, ids |-> request[1].ids,
                                      update |-> request[1].update, ok |-> ok])
                /\ tracker' = IF ok THEN apply_update(tracker, request[1]) ELSE tracker
                /\ idx' = [idx EXCEPT ![r] = @ + 1]
                /\ pc' = [pc EXCEPT ![r] = after_update(ok)]
    /\ UNCHANGED <<textVars, dir, test_results, args, bzr, bugs>>

Finished(r) ==
    \/ pc[r] \in {"exit1", "raised"}
    \/ pc[r] = "loop" /\ idx[r] = Len(bugs[r])

Step(r) == Main(r) \/ Direct(r) \/ GetBugs(r) \/ ReportResults(r)

Next == \E r \in Runs : Step(r)

Spec == Init /\ [][Next]_vars

\* the second run is started after the first one has ended
NextSeq == \E r \in Runs : Step(r) /\ (r = "B" => Finished("A"))

SpecSeq == Init /\ [][NextSeq]_vars


(***************************************************************************)
(* Definitions used to state the properties.                               *)
(***************************************************************************)
\* positions at which an '@bz<digits>' token starts
TokenStarts(t) ==
    {i \in 1..Len(t) :
        /\ MatchesAt(t, i, BZ_PREFIX)
        /\ i + Len(BZ_PREFIX) <= Len(t)
        /\ IsDigit(t[i + Len(BZ_PREFIX)])}

\* the digit group of the token that starts at i
DigitGroup(t, i) ==
    LET first == i + Len(BZ_PREFIX)
        last  == CHOOSE e \in first..Len(t) :
                    /\ \A k \in first..e : IsDigit(t[k])
                    /\ e = Len(t) \/ ~IsDigit(t[e + 1])
    IN  SubSeq(t, first, last)

\* every '@bz<digits>' reference of a text, in order of appearance
AllBzIds(t) ==
    LET starts == SortedSeq(TokenStarts(t))
    IN  [k \in 1..Len(starts) |-> int(DigitGroup(t, starts[k]))]

\* positions at which an '@feature_file_name:<non-whitespace>' occurrence starts
FeatureStarts(t) ==
    {i \in 1..Len(t) :
        /\ MatchesAt(t, i, FILENAME_PREFIX)
        /\ i + Len(FILENAME_PREFIX) <= Len(t)
        /\ ~IsSpace(t[i + Len(FILENAME_PREFIX)])}

\* the name an annotation token is to carry for a record
ExpectedTokenName(t, classname) ==
    IF FeatureStarts(t) = {} THEN classname
    ELSE LET i     == CHOOSE x \in FeatureStarts(t) : \A y \in FeatureStarts(t) : x <= y
             first == i + Len(FILENAME_PREFIX)
             last  == CHOOSE e \in first..Len(t) :
                         /\ \A k \in first..e : ~IsSpace(t[k])
                         /\ e = Len(t) \/ IsSpace(t[e + 1])
         IN  SubSeq(t, first, last)

\* the name of a file ends in '.xml'
IsXmlName(name) ==
    /\ Len(name) >= Len(XML_SUFFIX)
    /\ \A k \in 1..Len(XML_SUFFIX) :
          name[Len(name) - Len(XML_SUFFIX) + k] = XML_SUFFIX[k]

\* every reference of every testcase of every '.xml' file of a directory
AllRefs(d) ==
    UNION {UNION {Elems(AllBzIds(d[f].testcases[c].system_out)) :
                     c \in 1..Len(d[f].testcases)} :
              f \in {g \in 1..Len(d) : IsXmlName(d[g].filename)}}

Occurrences(s, sub) == Cardinality({i \in 1..Len(s) : MatchesAt(s, i, sub)})

\* indices of the update_bugs requests run r issued for bug id
UpdatesBy(r, id) ==
    {k \in 1..Len(updates) : updates[k].run = r /\ id \in Elems(updates[k].ids)}

UpdatesOf(r) == {k \in 1..Len(updates) : updates[k].run = r}

\* applied updates of bug id, of whatever run
AppliedTo(id) ==
    {k \in 1..Len(updates) : updates[k].ok /\ id \in Elems(updates[k].ids)}

\* the run has gone through its whole list of bugs
Completed(r) == pc[r] = "loop" /\ idx[r] = Len(bugs[r])

StatusesOf(results) == {results[k].status : k \in 1..Len(results)}

IsPrefix(p, s) == Len(p) <= Len(s) /\ SubSeq(s, 1, Len(p)) = p

RECURSIVE TokenLines(_)
TokenLines(results) ==
    IF results = <<>> THEN <<>>
    ELSE (IF Head(results).status = "passed"
          THEN whiteboard_token(Head(results)) \o NL
          ELSE <<>>)
         \o TokenLines(Tail(results))

(***************************************************************************)
(* C1: for every text, find_bugzillas returns the digit groups of all      *)
(* '@bz<digits>' tokens of the whole text as integers, in order of         *)
(* appearance and with duplicates, wherever a token starts.                *)
(***************************************************************************)
C1_FindsEveryToken == stage = "parsed" => bzids = AllBzIds(txt)

(***************************************************************************)
(* C9: the annotation token of a passed record is 'Test+:' followed by the *)
(* name of the first '@feature_file_name:' occurrence anywhere in its      *)
(* captured output, and by the class name only when there is none.         *)
(***************************************************************************)
C9_TokenNamesFirstFeatureFile ==
    stage = "parsed" =>
        whiteboard_token(record[1])
            = TOKEN_PREFIX \o ExpectedTokenName(txt, record[1].classname)

(***************************************************************************)
(* C6: the keys of the mapping parse_results returns are exactly the bug   *)
(* ids referenced in the captured output of the testcases of the '.xml'    *)
(* files of the directory.                                                 *)
(***************************************************************************)
C6_KeysAreAllReferences ==
    pc["A"] = "parsed" => DOMAIN test_results["A"] = AllRefs(dir)


C3_AllOrNothingGate ==
    \A r \in Runs : \A k \in 1..idx[r] :
        LET bug == bugs[r][k]
        IN  (/\ ~bzr[r][1].dry_run
             /\ ~Contains(bug.devel_whiteboard, DEVEL_WHITEBOARD_MARK))
            => ((UpdatesBy(r, bug.id) # {})
                  <=> (StatusesOf(test_results[r][bug.id])
                          \subseteq {"passed", "skipped"}))

C3_Witness ==
    \E r \in Runs : \E k \in 1..idx[r] :
        /\ ~bzr[r][1].dry_run
        /\ Len(test_results[r][bugs[r][k].id]) >= 2
        /\ test_results[r][bugs[r][k].id][1].status = "failed"
        /\ test_results[r][bugs[r][k].id][2].status = "passed"
        /\ UpdatesBy(r, bugs[r][k].id) = {}

(***************************************************************************)
(* C4: with dry-run set, no update_bugs request is ever issued.            *)
(***************************************************************************)
C4_DryRunNeverWrites == args.dry_run => updates = <<>>

C4_Witness ==
    /\ args.dry_run /\ args.comment
    /\ \E r \in Runs : \E k \in 1..idx[r] :
          StatusesOf(test_results[r][bugs[r][k].id]) = {"passed"}

(***************************************************************************)
(* C5: every devel_whiteboard value written is the bug's existing          *)
(* whiteboard text (when non-empty), then one 'Test+:' token per passed    *)
(* record in record order, then the mark as the final line; and no update  *)
(* removes or alters what the whiteboard held before it.                   *)
(***************************************************************************)
C5_WrittenValue ==
    \A k \in 1..Len(updates) :
        LET u   == updates[k]
            j   == CHOOSE j \in 1..Len(bugs[u.run]) : bugs[u.run][j].id = u.ids[1]
            old == bugs[u.run][j].devel_whiteboard
        IN  /\ Len(u.ids) = 1
            /\ u.update.devel_whiteboard
                 = (IF old # <<>> THEN old \o NL ELSE <<>>)
                   \o TokenLines(test_results[u.run][u.ids[1]])
                   \o DEVEL_WHITEBOARD_MARK

C5_PrefixKept ==
    \A id \in DOMAIN tracker :
        IsPrefix(tracker[id].devel_whiteboard, tracker'[id].devel_whiteboard)

C7_CommentFollowsToggle ==
    \A k \in 1..Len(updates) :
        LET u       == updates[k]
            results == test_results[u.run][u.ids[1]]
        IN  IF args.comment
            THEN /\ u.update.comment # None
                 /\ \A n \in 1..Len(results) :
                       results[n].status = "passed" =>
                           Contains(u.update.comment[1], results[n].system_out)
            ELSE u.update.comment = None

(***************************************************************************)
(* C8: a failing update_bugs is neither retried nor swallowed: the run     *)
(* ends at that bug, having issued the failed request once and nothing     *)
(* after it.                                                               *)
(***************************************************************************)
C8_FailurePropagates ==
    \A r \in Runs :
        LET failed == {k \in UpdatesOf(r) : ~updates[k].ok}
        IN  /\ (failed # {}) <=> (pc[r] = "raised")
            /\ pc[r] = "raised" =>
                /\ Cardinality(failed) = 1
                /\ \A k \in failed :
                      /\ \A j \in UpdatesOf(r) : j <= k
                      /\ updates[k].ids = <<bugs[r][idx[r]].id>>
                      /\ Cardinality(UpdatesBy(r, updates[k].ids[1])) = 1

C8_Stays ==
    \A r \in Runs :
        pc[r] = "raised" =>
            /\ pc'[r] = "raised" /\ idx'[r] = idx[r]
            /\ Len(SelectSeq(updates', LAMBDA u : u.run = r))
                 = Len(SelectSeq(updates, LAMBDA u : u.run = r))

C8_NotRetriedNotSwallowed == [](C8_FailurePropagates) /\ [][C8_Stays]_vars

C8_Witness ==
    \E r \in Runs : pc[r] = "raised" /\ idx[r] < Len(bugs[r])

(***************************************************************************)
(* C10: over any interleaving of two runs of main working on the same bug  *)
(* and records, at most one update is applied to the bug.                  *)
(***************************************************************************)
C10_AtMostOneWrite ==
    args.via = "main" =>
        \A id \in DOMAIN tracker : Cardinality(AppliedTo(id)) <= 1

====
